---- MODULE Spec2Model ----
(***************************************************************************)
(* Lifecycle orchestrator (TelegramBot.run / setup / shutdown_gracefully), *)
(* signal bridge and schema migrator (MigrationManager) of the bot         *)
(* template.  Coroutines are modelled at the granularity of the asyncio    *)
(* scheduler: one action is the code between two suspension points.        *)
(***************************************************************************)
EXTENDS Integers, Sequences, FiniteSets, TLC

\* ------------------------------------------------------------------ bounds
\* Revisions are 1..MaxRev, in the order of the linear script history.
MaxRev == 2
\* Number of termination signals delivered in one execution.
MaxSignals == 2
\* Number of update-handler exceptions in one execution.
MaxErrors == 1

\* ------------------------------------------------------------- migrator
\* Python's None for a revision id.
Null == 0
Revs == Null..MaxRev

\* Outcome of one get_current_revision() call: the bookkeeping row is read,
\* the store cannot be reached (logged, None), or the engine object cannot
\* be created / disposed (the exception leaves the method).
ReadOutcomes == {"ok", "unreachable", "raise"}
\* Outcome of one get_head_revision() call (an error is logged, None).
HeadOutcomes == {"ok", "fail"}
\* Outcome of one blocking engine call.
CallOutcomes == {"ok", "raise"}

VARIABLES
  dbRev,      \* the store's bookkeeping revision (Null: uninitialised)
  head,       \* newest revision of the on-disk script history (Null: none)
  mig,        \* the last MigrationManager call and what it did
  cfg,        \* BotConfig and platform: support bot, maintainer chat, signals,
              \* auto_migrate, database_url naming an async driver
  runPc,      \* where run() is suspended
  caught,     \* what run()'s except clauses have caught
  database,   \* self.database: "none", "nopool", "open", "closed"
  support_bot,\* self.support_bot: "none", "built", "setup", "started"
  app,        \* self.app and the flags the code reads from it
  is_shutting_down, \* app.bot_data['is_shutting_down']
  event,      \* shutting_down_event.is_set()
  sd,         \* where each shutdown_gracefully() invocation is suspended
  calls,      \* invocations of each teardown step
  signalsReg, \* the signal handlers are registered on the loop
  nsig,       \* termination signals delivered so far
  setupMig,   \* what DatabaseManager.setup() did with the migrator
  notify_failed, \* a started/stopping notification could not be sent
  errors_logged, \* exceptions of update handlers logged by _error_handler
  engPc,      \* the coroutine calling the migration engine: "idle", "awaiting"
  worker,     \* the engine routine running on a worker thread, or "none"
  ran_on,     \* where the last engine routine ran: "none", "worker", "loop"
  overlapped, \* another coroutine took a step while a worker was running
  tick,       \* flipped by each step of that other coroutine
  interrupted,\* a keyboard interrupt has cancelled run() at its await
  nt,         \* stop() of the non-template TelegramBot: components, position
  sup,        \* a SupportBot object called directly: its app, its stop() call
  st,         \* show_stats(): its position, its bot's database pool
  log         \* startup steps completed and teardown steps invoked, in order

\* State of what happens around run(): update handling, engine calls,
\* keyboard interrupt.
extVars == <<errors_logged, engPc, worker, ran_on, overlapped, tick, interrupted,
             nt, sup, st>>

migVars == <<dbRev, head, mig>>
botVars == <<cfg, runPc, caught, database, support_bot, app, is_shutting_down,
             event, sd, calls, signalsReg, nsig, setupMig, notify_failed, log,
             extVars>>

\* The outcomes a get_current_revision() call can have under the configured
\* database_url: create_async_engine(), called before the method's try block,
\* raises for a URL that does not name an async driver; otherwise every
\* failure happens inside the try block and is logged.
read_outcomes == {o \in ReadOutcomes : (o = "raise") <=> ~cfg.async_url}

NoCall ==
  [op |-> "none", o |-> "none", auto |-> FALSE, current |-> Null, hd |-> Null, before |-> Null,
   raised |-> FALSE, result |-> FALSE, applies |-> 0, upgrades |-> 0,
   applyResult |-> FALSE, r1 |-> "none", u |-> "none", r2 |-> "none"]

\* Value get_current_revision() returns when it does not raise.
get_current_revision(o) == IF o = "ok" THEN dbRev ELSE Null

\* Value get_head_revision() returns.
get_head_revision(h) == IF h = "ok" THEN head ELSE Null

has_pending_mut(current, hd) == current # hd
\* has_pending_migrations() on the two revisions it has read.
has_pending(current, hd) ==
  IF hd = Null THEN FALSE
  ELSE IF current = Null THEN TRUE
  ELSE current # hd

ensure_decision_mut(current, hd, auto) ==
  IF hd = Null THEN "ready"
  ELSE IF current = Null THEN (IF auto THEN "apply" ELSE "not_ready")
  ELSE IF current = hd THEN "ready"
  ELSE "apply"
\* The branch ensure_database_ready() takes on the revisions it has read.
ensure_decision(current, hd, auto) ==
  IF hd = Null THEN "ready"
  ELSE IF current = Null THEN (IF auto THEN "apply" ELSE "not_ready")
  ELSE IF current = hd THEN "ready"
  ELSE IF auto THEN "apply" ELSE "not_ready"

\* The engine's upgrade to "head" can complete only from a revision of the
\* script history; it is a no-op at head.
upgrade_outcomes == IF dbRev <= head THEN CallOutcomes ELSE {"raise"}

\* The store's revision after command.upgrade(cfg, "head"): head when the call
\* completes, untouched when it raises.
upgrade_result(u) == IF u = "ok" THEN head ELSE dbRev

apply_returns_always(r1, u, r2) == TRUE
apply_returns_mut(r1, u, r2) ==
  r1 # "raise" /\ u = "ok" /\ r2 # "raise" /\ dbRev # head
\* apply_migrations(): True iff nothing inside its try block raised.
apply_returns(r1, u, r2) == r1 # "raise" /\ u = "ok" /\ r2 # "raise"

\* apply_migrations() reaches the engine unless its first read raised.
upgrade_invoked(r1) == r1 # "raise"

\* The store's revision after apply_migrations().
apply_effect(r1, u) == IF upgrade_invoked(r1) THEN upgrade_result(u) ELSE dbRev

\* MigrationManager.apply_migrations("head") called directly.
apply_migrations ==
  \E r1 \in read_outcomes, u \in upgrade_outcomes, r2 \in read_outcomes :
    /\ dbRev' = apply_effect(r1, u)
    /\ mig' = [NoCall EXCEPT !.op = "apply", !.before = dbRev, !.hd = head,
                 !.result = apply_returns(r1, u, r2),
                 !.applies = 1,
                 !.upgrades = IF upgrade_invoked(r1) THEN 1 ELSE 0,
                 !.applyResult = apply_returns(r1, u, r2),
                 !.r1 = r1, !.u = IF upgrade_invoked(r1) THEN u ELSE "none",
                 !.r2 = IF upgrade_invoked(r1) /\ u = "ok" THEN r2 ELSE "none"]
    /\ UNCHANGED <<head, botVars>>

\* MigrationManager.has_pending_migrations().
has_pending_migrations ==
  \E o \in read_outcomes, h \in HeadOutcomes :
    /\ mig' = [NoCall EXCEPT !.op = "has_pending", !.o = o, !.before = dbRev,
                 !.current = get_current_revision(o),
                 !.hd = get_head_revision(h),
                 !.raised = (o = "raise"),
                 !.result = IF o = "raise" THEN FALSE
                            ELSE has_pending(get_current_revision(o), get_head_revision(h))]
    /\ UNCHANGED <<dbRev, head, botVars>>

\* The branch ensure_database_ready() takes; "error" when its read raised.
ensure_branch(auto, o, h) ==
  IF o = "raise" THEN "error"
  ELSE ensure_decision(get_current_revision(o), get_head_revision(h), auto)

\* What ensure_database_ready() returns.
ensure_returns(auto, o, h, r1, u, r2) ==
  CASE ensure_branch(auto, o, h) = "ready" -> TRUE
    [] ensure_branch(auto, o, h) = "apply" -> apply_returns(r1, u, r2)
    [] OTHER -> FALSE

\* The store's revision after ensure_database_ready().
ensure_effect(auto, o, h, r1, u) ==
  IF ensure_branch(auto, o, h) = "apply" THEN apply_effect(r1, u) ELSE dbRev

\* MigrationManager.ensure_database_ready(auto_migrate).
ensure_database_ready ==
  \E auto \in BOOLEAN, o \in read_outcomes, h \in HeadOutcomes,
     r1 \in read_outcomes, u \in upgrade_outcomes, r2 \in read_outcomes :
    LET current  == get_current_revision(o)
        hd       == get_head_revision(h)
        decision == ensure_branch(auto, o, h)
    IN /\ dbRev' = ensure_effect(auto, o, h, r1, u)
       /\ mig' = [NoCall EXCEPT !.op = "ensure", !.o = o, !.auto = auto,
                    !.before = dbRev,
                    !.current = current, !.hd = hd,
                    !.raised = (o = "raise"),
                    !.result = ensure_returns(auto, o, h, r1, u, r2),
                    !.applies = IF decision = "apply" THEN 1 ELSE 0,
                    !.upgrades = IF decision = "apply" /\ upgrade_invoked(r1) THEN 1 ELSE 0,
                    !.applyResult = (decision = "apply" /\ apply_returns(r1, u, r2)),
                    !.r1 = IF decision = "apply" THEN r1 ELSE "none",
                    !.u = IF decision = "apply" /\ upgrade_invoked(r1) THEN u ELSE "none",
                    !.r2 = IF decision = "apply" /\ upgrade_invoked(r1) /\ u = "ok"
                           THEN r2 ELSE "none"]
       /\ UNCHANGED <<head, botVars>>

\* A migration script is added to the on-disk history between two calls.
add_script ==
  /\ head < MaxRev
  /\ head' = head + 1
  /\ UNCHANGED <<dbRev, mig, botVars>>

\* ----------------------------------------------------------- orchestrator
\* Tasks created by the signal handler; caller 0 is run()'s own finally step.
Tasks == 1..MaxSignals
Callers == {0} \cup Tasks

\* The suspension points of shutdown_gracefully(), in program order.
SdStages == <<"notify_maintainer", "notify_support", "support_stop",
              "updater_stop", "app_stop", "app_shutdown", "db_close">>

RunStages_mut == <<"app_initialize", "app_start", "notify_support_start",
                   "notify_maint_start", "start_polling", "support_start",
                   "wait", "aexit">>
\* The suspension points of run() after setup(), in program order.
RunStages == <<"app_initialize", "app_start", "notify_support_start",
               "notify_maint_start", "support_start", "start_polling",
               "wait", "aexit">>

Terminal == {"returned", "raised"}

StageIdx(stages, s) == CHOOSE i \in 1..Len(stages) : stages[i] = s

NoApp == [exists |-> FALSE, initialized |-> FALSE, running |-> FALSE, polling |-> FALSE]

NoCalls == [support_stop |-> 0, updater_stop |-> 0, app_stop |-> 0,
            app_shutdown |-> 0, db_close |-> 0]

\* SupportBot defines no is_running(): the call in shutdown_gracefully()
\* raises AttributeError.
HasIsRunning == FALSE

\* Whether shutdown_gracefully() suspends at a stage, in the state it sees.
sd_cond(stage, A, sb, db) ==
  CASE stage = "notify_maintainer" -> cfg.maintainer /\ A.exists
    [] stage = "notify_support"    -> sb \in {"setup", "started"}
    [] stage = "support_stop"      -> sb = "started"
    [] stage = "updater_stop"      -> A.polling
    [] stage = "app_stop"          -> A.running
    [] stage = "app_shutdown"      -> A.initialized
    [] stage = "db_close"          -> db \in {"open", "closed"}

RECURSIVE sd_next(_, _, _, _)
\* Where shutdown_gracefully() suspends next, running on from stage k without
\* a suspension: "done" at its end, "raised" when the is_running() call faults.
sd_next(k, A, sb, db) ==
  IF k > Len(SdStages) THEN "done"
  ELSE IF SdStages[k] = "support_stop" /\ sb # "none" /\ ~HasIsRunning THEN "raised"
  ELSE IF sd_cond(SdStages[k], A, sb, db) THEN SdStages[k]
  ELSE sd_next(k + 1, A, sb, db)

\* One more invocation of the teardown step shutdown_gracefully() suspends at.
bump(c, stage) ==
  IF stage \in DOMAIN c THEN [c EXCEPT ![stage] = @ + 1] ELSE c

\* self.app after an awaited call of a stage has completed or raised.
app_after(stage, x) ==
  IF x # "ok" THEN app
  ELSE CASE stage \in {"app_initialize"}       -> [app EXCEPT !.initialized = TRUE]
         [] stage \in {"app_start"}            -> [app EXCEPT !.running = TRUE]
         [] stage \in {"start_polling"}        -> [app EXCEPT !.polling = TRUE]
         [] stage \in {"updater_stop"}         -> [app EXCEPT !.polling = FALSE]
         [] stage \in {"app_stop"}             -> [app EXCEPT !.running = FALSE]
         [] stage \in {"app_shutdown", "aexit"} -> [app EXCEPT !.initialized = FALSE]
         [] OTHER -> app

\* self.database after the awaited call of a stage.
db_after(stage, x) ==
  IF stage \in {"db_close", "fallback_db_close"} /\ x = "ok" THEN "closed" ELSE database

\* self.support_bot after the awaited call of a stage.
sb_after(stage, x) ==
  CASE stage = "support_start" /\ x = "ok" -> "started"
    [] stage = "support_stop" -> "setup"
    [] OTHER -> support_bot

\* The log after a shutdown_gracefully() or run() step that ends at pc: the
\* call it suspends in has been invoked.
log_invoked(l, pc) ==
  IF pc \in {"noop", "done", "raised", "wait"} THEN l ELSE Append(l, pc)

\* The startup calls of run() whose completion starts a subsystem.
StartSteps == {"app_initialize", "app_start", "support_start", "start_polling"}

\* The log after an awaited startup call of run() has completed or raised.
log_started(l, stage, x) ==
  IF x = "ok" /\ stage \in StartSteps THEN Append(l, stage) ELSE l

guard_blocks_mut == FALSE
\* The idempotency guard: shutdown_gracefully() returns at once when the flag
\* is already set.
guard_blocks == is_shutting_down

EnterShutdown_mut(c, A, sb, db) ==
  IF guard_blocks
  THEN /\ sd' = [sd EXCEPT ![c] = "noop"]
       /\ UNCHANGED <<is_shutting_down, event, calls, log>>
  ELSE /\ is_shutting_down' = TRUE
       /\ event' = (sd_next(1, A, sb, db) \in {"done", "raised"})
       /\ sd' = [sd EXCEPT ![c] = sd_next(1, A, sb, db)]
       /\ calls' = bump(calls, sd_next(1, A, sb, db))
       /\ log' = log_invoked(Append(log, "event_set"), sd_next(1, A, sb, db))
\* Entry of shutdown_gracefully() by caller c, up to its first suspension:
\* guard, flag and event set, then the first stage that suspends.
EnterShutdown(c, A, sb, db) ==
  IF guard_blocks
  THEN /\ sd' = [sd EXCEPT ![c] = "noop"]
       /\ UNCHANGED <<is_shutting_down, event, calls, log>>
  ELSE /\ is_shutting_down' = TRUE
       /\ event' = TRUE
       /\ sd' = [sd EXCEPT ![c] = sd_next(1, A, sb, db)]
       /\ calls' = bump(calls, sd_next(1, A, sb, db))
       /\ log' = log_invoked(Append(log, "event_set"), sd_next(1, A, sb, db))

\* How run() ends after its finally step: it returns, or the cancellation
\* that unwound it goes on to the caller.
run_ends(intr) == IF intr THEN "raised" ELSE "returned"

\* Where run() is once its own shutdown_gracefully() call is at pc.
run_after_sd(pc) ==
  CASE pc \in {"noop", "done"} -> run_ends(interrupted)
    [] pc = "raised" -> "raised"
    [] OTHER -> "finally"

\* run()'s finally step with self.app set: await shutdown_gracefully().
RunFinally(A, sb, db) ==
  /\ EnterShutdown(0, A, sb, db)
  /\ runPc' = run_after_sd(IF guard_blocks THEN "noop" ELSE sd_next(1, A, sb, db))

\* Whether run() suspends at a stage.
run_cond(stage, sb, ev) ==
  CASE stage = "notify_support_start" -> sb \in {"setup", "started"}
    [] stage = "notify_maint_start"   -> cfg.maintainer
    [] stage = "support_start"        -> sb # "none"
    [] stage = "wait"                 -> ~ev
    [] OTHER -> TRUE

RECURSIVE run_next(_, _, _)
\* Where run() suspends next, running on from stage k.
run_next(k, sb, ev) ==
  IF run_cond(RunStages[k], sb, ev) \/ k = Len(RunStages) THEN RunStages[k]
  ELSE run_next(k + 1, sb, ev)

\* The points at which setup() can raise.
SetupFailures == {"none", "validate", "db_construct", "pool", "support_setup",
                  "app_build"}

fallback_closes_mut(db) == FALSE
\* run()'s finally step without self.app: database.close() is still called
\* when self.database is set.
fallback_closes(db) == db # "none"

\* The auto_migrate flag of the DatabaseManager that setup() constructs from a
\* BotConfig c: DatabaseManager(self.config.database_url) leaves the
\* constructor's default.
manager_auto_migrate(c) == TRUE

migration_gate_mut(ready) == TRUE
\* DatabaseManager.setup() goes on to create the pool only when
\* ensure_database_ready() returned True; otherwise it raises.
migration_gate(ready) == ready

NoSetupMig == [called |-> FALSE, ready |-> FALSE, applies |-> 0]

\* The steps of setup() that completed, in program order.
setup_log(db_ok, sb_ok, app_ok) ==
  (IF db_ok THEN <<"db_setup">> ELSE <<>>)
  \o (IF sb_ok THEN <<"support_setup">> ELSE <<>>)
  \o (IF app_ok THEN <<"app_build">> ELSE <<>>)

\* run() from its start: await self.setup(), then into `async with self.app`,
\* or, setup() having raised, through except into the finally step.
run_setup ==
  /\ runPc = "init"
  /\ \E f \in SetupFailures, o \in read_outcomes, h \in HeadOutcomes,
        r1 \in read_outcomes, u \in upgrade_outcomes, r2 \in read_outcomes :
       LET constructed == f \notin {"validate", "db_construct"}
           called   == constructed /\ manager_auto_migrate(cfg)
           ready    == ensure_returns(TRUE, o, h, r1, u, r2)
           db_ok    == constructed /\ (called => migration_gate(ready)) /\ f # "pool"
           sb_try   == db_ok /\ cfg.support
           sb_ok    == sb_try /\ f # "support_setup"
           app_ok   == db_ok /\ (cfg.support => sb_ok) /\ f # "app_build"
           db       == IF db_ok THEN "open" ELSE IF constructed THEN "nopool" ELSE "none"
       IN /\ dbRev' = IF called THEN ensure_effect(TRUE, o, h, r1, u) ELSE dbRev
          /\ setupMig' = [called |-> called, ready |-> called /\ ready,
                          applies |-> IF called /\ ensure_branch(TRUE, o, h) = "apply"
                                      THEN 1 ELSE 0]
          /\ database' = db
          /\ support_bot' = IF sb_ok THEN "setup" ELSE IF sb_try THEN "built" ELSE "none"
          /\ app' = [NoApp EXCEPT !.exists = app_ok]
          /\ caught' = IF app_ok THEN "none" ELSE "setup"
          /\ IF app_ok THEN runPc' = "app_initialize" /\ calls' = calls
             ELSE IF ~fallback_closes(db) THEN runPc' = "returned" /\ calls' = calls
             ELSE IF db = "open" THEN runPc' = "fallback_db_close"
                                      /\ calls' = bump(calls, "db_close")
             ELSE runPc' = "returned" /\ calls' = bump(calls, "db_close")
          /\ log' = setup_log(db_ok, sb_ok, app_ok)
                     \o (IF ~app_ok /\ fallback_closes(db) THEN <<"db_close">> ELSE <<>>)
  /\ UNCHANGED <<extVars, head, mig, cfg, is_shutting_down, event, sd, signalsReg, nsig,
                 notify_failed>>

\* run()'s finally step after a failed setup(): database.close() completes.
run_fallback_close ==
  /\ runPc = "fallback_db_close"
  /\ \E x \in CallOutcomes : database' = db_after("fallback_db_close", x)
  /\ runPc' = "returned"
  /\ UNCHANGED <<extVars, migVars, cfg, caught, support_bot, app, is_shutting_down, event,
                 sd, calls, signalsReg, nsig, setupMig, notify_failed, log>>

registration_raises_mut(c) == ~c.can_register
\* Whether _register_signal_handlers() raises into run(): on Windows it
\* returns early, and NotImplementedError / RuntimeError of
\* add_signal_handler are caught and logged.
registration_raises(c) == FALSE

\* The awaited calls that send a started or a stopping notification.
NotifyStages == {"notify_support_start", "notify_maint_start",
                 "notify_maintainer", "notify_support"}

absorbs_mut(stage) == FALSE
\* A failed send is caught and logged inside send_notification() and
\* _notify_maintainer(): the exception does not reach the caller.
absorbs(stage) == stage \in NotifyStages

\* The call run() is suspended in, inside `async with self.app`, completes or
\* raises, and run() runs on to its next suspension.
run_step ==
  /\ runPc \in {"app_initialize", "app_start", "notify_support_start",
                "notify_maint_start", "support_start", "start_polling"}
  /\ \E x \in CallOutcomes :
       LET A   == app_after(runPc, x)
           sb  == sb_after(runPc, x)
           k   == StageIdx(RunStages, runPc)
           absorbed == absorbs(runPc)
       IN /\ app' = A
          /\ notify_failed' = (notify_failed \/ (x # "ok" /\ runPc \in NotifyStages))
          /\ support_bot' = sb
          /\ signalsReg' = IF runPc = "app_start" /\ x = "ok" THEN cfg.can_register
                           ELSE signalsReg
          /\ IF (x = "ok" /\ ~(runPc = "app_start" /\ registration_raises(cfg)))
                \/ absorbed
             THEN /\ runPc' = run_next(k + 1, sb, event)
                  /\ log' = log_invoked(log_started(log, runPc, x),
                                        IF run_next(k + 1, sb, event) = "aexit"
                                        THEN "aexit" ELSE "wait")
                  /\ UNCHANGED <<caught, is_shutting_down, event, sd, calls>>
             ELSE IF runPc = "app_initialize"
             THEN /\ caught' = "runtime"
                  /\ RunFinally(A, sb, database)
             ELSE /\ caught' = "runtime"
                  /\ runPc' = "aexit"
                  /\ log' = log_invoked(log, "aexit")
                  /\ UNCHANGED <<is_shutting_down, event, sd, calls>>
  /\ UNCHANGED <<extVars, migVars, cfg, database, nsig, setupMig>>

wait_ready_mut == FALSE
\* `await self.shutting_down_event.wait()` returns once the event is set.
wait_ready == event

\* run() resumes from the wait on the shutdown event and leaves the
\* `async with` body.
run_wake ==
  /\ runPc = "wait"
  /\ wait_ready
  /\ runPc' = "aexit"
  /\ log' = log_invoked(log, "aexit")
  /\ UNCHANGED <<extVars, migVars, cfg, caught, database, support_bot, app,
                 is_shutting_down, event, sd, calls, signalsReg, nsig, setupMig,
                 notify_failed>>

\* `async with self.app` exits (Application.shutdown()), any exception is
\* logged by except, and the finally step calls shutdown_gracefully().
run_aexit ==
  /\ runPc = "aexit"
  /\ \E x \in CallOutcomes :
       /\ app' = app_after("aexit", x)
       /\ caught' = IF x = "ok" THEN caught ELSE "runtime"
       /\ RunFinally(app_after("aexit", x), support_bot, database)
  /\ UNCHANGED <<extVars, migVars, cfg, database, support_bot, signalsReg, nsig, setupMig,
                 notify_failed>>

\* The call a shutdown_gracefully() invocation is suspended in completes or
\* raises (every raise is logged), and it runs on to its next suspension.
sd_step(c) ==
  /\ sd[c] \in {SdStages[i] : i \in 1..Len(SdStages)}
  /\ runPc \notin Terminal
  /\ \E x \in CallOutcomes :
       LET A   == app_after(sd[c], x)
           sb  == sb_after(sd[c], x)
           db  == db_after(sd[c], x)
           nxt == sd_next(StageIdx(SdStages, sd[c]) + 1, A, sb, db)
       IN /\ app' = A
          /\ support_bot' = sb
          /\ database' = db
          /\ sd' = [sd EXCEPT ![c] = nxt]
          /\ calls' = bump(calls, nxt)
          /\ log' = log_invoked(log, nxt)
          /\ notify_failed' = (notify_failed \/ (x # "ok" /\ sd[c] \in NotifyStages))
          /\ runPc' = IF c = 0 THEN run_after_sd(nxt) ELSE runPc
  /\ UNCHANGED <<extVars, migVars, cfg, caught, is_shutting_down, event, signalsReg, nsig,
                 setupMig>>

\* run()'s own shutdown_gracefully() call advances.
run_finally_step == sd_step(0)

\* A shutdown task created by the signal handler advances.
task_step == \E t \in Tasks : sd_step(t)

handler_schedules_mut == app.exists
\* signal_handler_closure creates a shutdown task only with self.app set and
\* the is_shutting_down flag not set.
handler_schedules == app.exists /\ ~is_shutting_down

\* signal_handler_closure: a termination signal is delivered to the loop.
signal_handler_closure ==
  /\ signalsReg
  /\ runPc \notin Terminal
  /\ nsig < MaxSignals
  /\ nsig' = nsig + 1
  /\ sd' = IF handler_schedules
           THEN [sd EXCEPT ![nsig + 1] = "created"] ELSE sd
  /\ UNCHANGED <<extVars, migVars, cfg, runPc, caught, database, support_bot, app,
                 is_shutting_down, event, calls, signalsReg, setupMig, notify_failed,
                 log>>

\* A task created by the signal handler starts running shutdown_gracefully().
task_start ==
  \E t \in Tasks :
    /\ sd[t] = "created"
    /\ runPc \notin Terminal
    /\ EnterShutdown(t, app, support_bot, database)
    /\ UNCHANGED <<extVars, migVars, cfg, runPc, caught, database, support_bot, app,
                   signalsReg, nsig, setupMig, notify_failed>>

\* asyncio.run() cancels the tasks still pending once run() has finished.
loop_close ==
  /\ runPc \in Terminal
  /\ \E t \in Tasks : sd[t] \notin {"idle", "noop", "done", "raised", "cancelled"}
  /\ sd' = [c \in Callers |->
              IF sd[c] \in {"idle", "noop", "done", "raised", "cancelled"}
              THEN sd[c] ELSE "cancelled"]
  /\ UNCHANGED <<extVars, migVars, cfg, runPc, caught, database, support_bot, app,
                 is_shutting_down, event, calls, signalsReg, nsig, setupMig, notify_failed, log>>

vars == <<dbRev, head, mig, cfg, runPc, caught, database, support_bot, app,
          is_shutting_down, event, sd, calls, signalsReg, nsig, setupMig,
          notify_failed, log, extVars>>

Configs == [support : BOOLEAN, maintainer : BOOLEAN, can_register : BOOLEAN,
            auto_migrate : BOOLEAN, async_url : BOOLEAN]

NoNt == [pc |-> "idle", app |-> FALSE, support |-> FALSE, database |-> FALSE,
         invoked |-> {}, failed |-> "none"]

NoSup == [app |-> "none", pc |-> "idle", at |-> "none", invoked |-> {},
          res |-> "none"]

NoStats == [pc |-> "setup", pool |-> "none", setup_ok |-> FALSE,
            stop_ran |-> FALSE]

BotInit ==
  /\ cfg \in Configs
  /\ runPc = "init"
  /\ caught = "none"
  /\ database = "none"
  /\ support_bot = "none"
  /\ app = NoApp
  /\ is_shutting_down = FALSE
  /\ event = FALSE
  /\ sd = [c \in Callers |-> "idle"]
  /\ calls = NoCalls
  /\ signalsReg = FALSE
  /\ nsig = 0
  /\ setupMig = NoSetupMig
  /\ notify_failed = FALSE
  /\ errors_logged = 0
  /\ engPc = "idle"
  /\ worker = "none"
  /\ ran_on = "none"
  /\ overlapped = FALSE
  /\ tick = FALSE
  /\ interrupted = FALSE
  /\ nt = NoNt
  /\ sup = NoSup
  /\ st = NoStats
  /\ log = <<>>

\* The bot process on a fresh store.
Init ==
  /\ dbRev = Null
  /\ head \in {Null, MaxRev}
  /\ mig = NoCall
  /\ BotInit

Next ==
  \/ run_setup
  \/ run_fallback_close
  \/ run_step
  \/ run_wake
  \/ run_aexit
  \/ run_finally_step
  \/ task_step
  \/ signal_handler_closure
  \/ task_start
  \/ loop_close

Spec == Init /\ [][Next]_vars

\* The asyncio loop runs every ready coroutine, and awaited calls return.
FairSpec ==
  /\ Spec
  /\ WF_vars(run_setup) /\ WF_vars(run_fallback_close) /\ WF_vars(run_step)
  /\ WF_vars(run_wake) /\ WF_vars(run_aexit) /\ WF_vars(run_finally_step)
  /\ WF_vars(task_step) /\ WF_vars(task_start)

\* The migration manager called on its own (CLI, status queries).
MigInit ==
  /\ dbRev \in Revs
  /\ head \in Revs
  /\ mig = NoCall
  /\ BotInit

MigNext ==
  \/ apply_migrations
  \/ has_pending_migrations
  \/ ensure_database_ready
  \/ add_script

MigSpec == MigInit /\ [][MigNext]_vars

\* The blocking routines of the migration engine.
EngineOps == {"upgrade", "downgrade", "stamp", "revision"}

offloaded_mut(op) == op # "stamp"
\* Whether the call of an engine routine is wrapped in asyncio.to_thread().
offloaded(op) == TRUE

\* Outcomes of command.downgrade(cfg, "-1"): possible only from a revision of
\* the history.
downgrade_outcomes == IF dbRev # Null /\ dbRev <= head THEN CallOutcomes ELSE {"raise"}

\* Outcomes of an engine routine in the current state.
engine_outcomes(op) ==
  CASE op = "upgrade"   -> upgrade_outcomes
    [] op = "downgrade" -> downgrade_outcomes
    [] op = "revision"  -> IF head < MaxRev THEN CallOutcomes ELSE {"raise"}
    [] OTHER            -> CallOutcomes

\* The store's revision after an engine routine.
engine_rev(op, u) ==
  IF u # "ok" THEN dbRev
  ELSE CASE op = "upgrade"   -> head
         [] op = "downgrade" -> dbRev - 1
         [] op = "stamp"     -> head
         [] OTHER            -> dbRev

\* The head of the script history after an engine routine.
engine_head(op, u) == IF op = "revision" /\ u = "ok" THEN head + 1 ELSE head

\* The method of MigrationManager that calls an engine routine.
engine_method(op) ==
  CASE op = "upgrade"   -> "apply"
    [] op = "downgrade" -> "rollback"
    [] op = "stamp"     -> "stamp"
    [] op = "revision"  -> "create"

\* The record of a finished engine call: r1 and r2 are the revision reads
\* around upgrade and downgrade.
engine_record(op, r1, u, r2) ==
  [NoCall EXCEPT !.op = engine_method(op), !.before = dbRev, !.hd = head,
     !.upgrades = IF op = "upgrade" /\ r1 # "raise" THEN 1 ELSE 0,
     !.applies = IF op = "upgrade" THEN 1 ELSE 0,
     !.raised = (op = "revision" /\ u # "ok"),
     !.result = IF op \in {"upgrade", "downgrade"} THEN apply_returns(r1, u, r2)
                ELSE u = "ok",
     !.applyResult = (op = "upgrade" /\ apply_returns(r1, u, r2)),
     !.r1 = IF op \in {"upgrade", "downgrade"} THEN r1 ELSE "none",
     !.u = IF r1 # "raise" THEN u ELSE "none",
     !.r2 = IF op \in {"upgrade", "downgrade"} /\ r1 # "raise" /\ u = "ok"
            THEN r2 ELSE "none"]

\* apply_migrations(), rollback_migration(), stamp_database() or
\* create_migration() runs up to its call of the engine: the routine is handed
\* to a worker thread and the coroutine suspends; or the first revision read
\* raised and the method ends at once.
engine_call_begin ==
  /\ engPc = "idle"
  /\ \E op \in EngineOps, r1 \in read_outcomes, r2 \in read_outcomes :
     \E u \in engine_outcomes(op) :
       IF op \in {"upgrade", "downgrade"} /\ r1 = "raise"
       THEN /\ mig' = engine_record(op, r1, u, r2)
            /\ UNCHANGED <<dbRev, head, engPc, worker, ran_on>>
       ELSE IF offloaded(op)
       THEN /\ worker' = op
            /\ engPc' = "awaiting"
            /\ UNCHANGED <<dbRev, head, mig, ran_on>>
       ELSE /\ dbRev' = engine_rev(op, u)
            /\ head' = engine_head(op, u)
            /\ mig' = engine_record(op, "ok", u, r2)
            /\ ran_on' = "loop"
            /\ UNCHANGED <<engPc, worker>>
  /\ UNCHANGED <<cfg, runPc, caught, database, support_bot, app, is_shutting_down,
                 event, sd, calls, signalsReg, nsig, setupMig, notify_failed, log,
                 errors_logged, overlapped, tick, interrupted, nt, sup, st>>

\* The worker thread finishes the engine routine; the coroutine resumes, reads
\* the revision again where the method does, and returns.
engine_call_end ==
  /\ worker # "none"
  /\ \E u \in engine_outcomes(worker), r2 \in read_outcomes :
       /\ dbRev' = engine_rev(worker, u)
       /\ head' = engine_head(worker, u)
       /\ mig' = engine_record(worker, "ok", u, r2)
  /\ worker' = "none"
  /\ engPc' = "idle"
  /\ ran_on' = "worker"
  /\ UNCHANGED <<cfg, runPc, caught, database, support_bot, app, is_shutting_down,
                 event, sd, calls, signalsReg, nsig, setupMig, notify_failed, log,
                 errors_logged, overlapped, tick, interrupted, nt, sup, st>>

\* Another coroutine of the same loop takes a step.
other_coroutine_step ==
  /\ tick' = ~tick
  /\ overlapped' = (overlapped \/ worker # "none")
  /\ UNCHANGED <<migVars, cfg, runPc, caught, database, support_bot, app,
                 is_shutting_down, event, sd, calls, signalsReg, nsig, setupMig,
                 notify_failed, log, errors_logged, engPc, worker, ran_on,
                 interrupted, nt, sup, st>>

WorkerNext ==
  \/ engine_call_begin
  \/ engine_call_end
  \/ other_coroutine_step

\* The migration manager's engine calls next to another coroutine.
WorkerSpec == MigInit /\ [][WorkerNext]_vars

error_handler_stops_mut == TRUE
\* Whether _error_handler() starts a shutdown: it only logs.
error_handler_stops == FALSE

\* A handler raises while the running application processes an update; the
\* application passes the exception to the registered _error_handler().
process_update_error ==
  /\ app.running /\ app.polling
  /\ errors_logged < MaxErrors
  /\ errors_logged' = errors_logged + 1
  /\ is_shutting_down' = (is_shutting_down \/ error_handler_stops)
  /\ event' = (event \/ error_handler_stops)
  /\ UNCHANGED <<migVars, cfg, runPc, caught, database, support_bot, app, sd, calls,
                 signalsReg, nsig, setupMig, notify_failed, log, engPc, worker,
                 ran_on, overlapped, tick, interrupted, nt, sup, st>>

\* Where an exception raised at run()'s await pc takes run(): out of the
\* `async with` body through its exit, or, raised inside the entry or the exit
\* itself, straight to the finally step.
unwind(pc) == IF pc \in {"app_initialize", "aexit"} THEN "finally" ELSE "aexit"

\* A keyboard interrupt while no signal handler is registered: run() is
\* cancelled at the await it is suspended in.  Neither except clause of run()
\* stops the unwinding; the finally step runs.
interrupt ==
  /\ ~signalsReg
  /\ ~interrupted
  /\ runPc \in {RunStages[i] : i \in 1..Len(RunStages)}
  /\ interrupted' = TRUE
  /\ caught' = "interrupt"
  /\ IF unwind(runPc) = "aexit"
     THEN /\ runPc' = "aexit"
          /\ log' = log_invoked(log, "aexit")
          /\ UNCHANGED <<is_shutting_down, event, sd, calls>>
     ELSE /\ EnterShutdown(0, app, support_bot, database)
          /\ runPc' = IF guard_blocks THEN run_ends(TRUE)
                      ELSE IF sd_next(1, app, support_bot, database) = "done"
                      THEN run_ends(TRUE)
                      ELSE run_after_sd(sd_next(1, app, support_bot, database))
  /\ UNCHANGED <<migVars, cfg, database, support_bot, app, signalsReg, nsig, setupMig,
                 notify_failed, errors_logged, engPc, worker, ran_on, overlapped, tick,
                 nt, sup, st>>

InterruptNext == Next \/ interrupt

\* The bot process with a keyboard interrupt.
InterruptSpec == Init /\ [][InterruptNext]_vars

\* The awaited calls of the non-template stop(), in program order.
NtStages == <<"notify", "updater_stop", "app_stop", "app_shutdown",
              "support_stop", "db_close">>

\* Whether stop() makes the call of a stage, for the components n that exist.
nt_cond(stage, n) ==
  CASE stage \in {"notify", "support_stop"} -> n.support
    [] stage \in {"updater_stop", "app_stop", "app_shutdown"} -> n.app
    [] stage = "db_close" -> n.database

RECURSIVE nt_next(_, _)
\* The next call stop() makes, running on from stage k; "done" at its end.
nt_next(k, n) ==
  IF k > Len(NtStages) THEN "done"
  ELSE IF nt_cond(NtStages[k], n) THEN NtStages[k]
  ELSE nt_next(k + 1, n)

\* The calls whose exceptions do not reach stop(): send_notification() and
\* SupportBot.stop() catch their own.
nt_absorbs(stage) == stage \in {"notify", "support_stop"}

\* The non-template run() reaches its finally step and calls stop(), with the
\* components start() had set by then.
nt_stop_begin ==
  /\ nt.pc = "idle"
  /\ \E a \in BOOLEAN, d \in BOOLEAN, b \in {FALSE, cfg.support} :
       LET n   == [NoNt EXCEPT !.app = a, !.database = d, !.support = b /\ d]
           nxt == nt_next(1, n)
       IN nt' = [n EXCEPT !.pc = nxt,
                          !.invoked = IF nxt = "done" THEN {} ELSE {nxt}]
  /\ UNCHANGED <<migVars, cfg, runPc, caught, database, support_bot, app,
                 is_shutting_down, event, sd, calls, signalsReg, nsig, setupMig,
                 notify_failed, log, errors_logged, engPc, worker, ran_on,
                 overlapped, tick, interrupted, sup, st>>

\* The call stop() is suspended in completes or raises: a raise that reaches
\* stop() is caught by its single except clause, which ends stop().
nt_stop_step ==
  /\ nt.pc \in {NtStages[i] : i \in 1..Len(NtStages)}
  /\ \E x \in CallOutcomes :
       LET nxt == nt_next(StageIdx(NtStages, nt.pc) + 1, nt)
       IN IF x = "ok" \/ nt_absorbs(nt.pc)
          THEN nt' = [nt EXCEPT !.pc = nxt,
                                !.invoked = IF nxt = "done" THEN @ ELSE @ \cup {nxt}]
          ELSE nt' = [nt EXCEPT !.pc = "done", !.failed = nt.pc]
  /\ UNCHANGED <<migVars, cfg, runPc, caught, database, support_bot, app,
                 is_shutting_down, event, sd, calls, signalsReg, nsig, setupMig,
                 notify_failed, log, errors_logged, engPc, worker, ran_on,
                 overlapped, tick, interrupted, sup, st>>

NtNext == nt_stop_begin \/ nt_stop_step

\* stop() of the non-template bot.
NtSpec == Init /\ [][NtNext]_vars

\* The awaited calls of SupportBot.stop(), in program order.
SupStopStages == <<"updater_stop", "app_stop", "app_shutdown">>

\* Outcomes of a teardown call of the support application: an updater that
\* was never started cannot be stopped.
sup_outcomes(stage) ==
  IF stage = "updater_stop" /\ sup.app # "started" THEN {"raise"} ELSE CallOutcomes

sup_stop_absorbs_mut == FALSE
\* SupportBot.stop() runs its teardown calls inside try / except Exception,
\* which logs.
sup_stop_absorbs == TRUE

\* SupportBot.setup() and SupportBot.start() (which sets the application up
\* first when there is none): the application is built, then started, or an
\* exception leaves it where it was.
sup_setup_start ==
  /\ sup.pc = "idle"
  /\ \E to \in {"setup", "started"}, x \in CallOutcomes :
       /\ sup.app # "started"
       /\ sup' = [sup EXCEPT !.app = IF x = "ok" THEN to
                                     ELSE IF to = "started" /\ sup.app = "none"
                                     THEN "setup" ELSE sup.app]
  /\ UNCHANGED <<migVars, cfg, runPc, caught, database, support_bot, app,
                 is_shutting_down, event, sd, calls, signalsReg, nsig, setupMig,
                 notify_failed, log, errors_logged, engPc, worker, ran_on,
                 overlapped, tick, interrupted, nt, st>>

\* SupportBot.stop() is called: without an application it returns at once,
\* otherwise it suspends in its first teardown call.
sup_stop_begin ==
  /\ sup.pc = "idle"
  /\ sup' = IF sup.app = "none"
            THEN [sup EXCEPT !.at = "none", !.invoked = {}, !.res = "returned"]
            ELSE [sup EXCEPT !.at = sup.app, !.invoked = {"updater_stop"},
                             !.res = "none", !.pc = "updater_stop"]
  /\ UNCHANGED <<migVars, cfg, runPc, caught, database, support_bot, app,
                 is_shutting_down, event, sd, calls, signalsReg, nsig, setupMig,
                 notify_failed, log, errors_logged, engPc, worker, ran_on,
                 overlapped, tick, interrupted, nt, st>>

\* The teardown call SupportBot.stop() is suspended in completes or raises.
sup_stop_step ==
  /\ sup.pc # "idle"
  /\ \E x \in sup_outcomes(sup.pc) :
       LET k == StageIdx(SupStopStages, sup.pc)
       IN IF x = "ok" /\ k < Len(SupStopStages)
          THEN sup' = [sup EXCEPT !.pc = SupStopStages[k + 1],
                                  !.invoked = @ \cup {SupStopStages[k + 1]}]
          ELSE IF x = "ok"
          THEN sup' = [sup EXCEPT !.pc = "idle", !.res = "returned", !.app = "setup"]
          ELSE sup' = [sup EXCEPT !.pc = "idle",
                                  !.res = IF sup_stop_absorbs THEN "returned"
                                          ELSE "raised"]
  /\ UNCHANGED <<migVars, cfg, runPc, caught, database, support_bot, app,
                 is_shutting_down, event, sd, calls, signalsReg, nsig, setupMig,
                 notify_failed, log, errors_logged, engPc, worker, ran_on,
                 overlapped, tick, interrupted, nt, st>>

SupportNext == sup_setup_start \/ sup_stop_begin \/ sup_stop_step

\* A SupportBot object driven directly.
SupportSpec == Init /\ [][SupportNext]_vars

\* Whether the template's TelegramBot has a stop() method: the class defines
\* setup, run, shutdown_gracefully and helpers, and no stop.
bot_has_stop == FALSE

\* How bot.setup() inside show_stats() can end: the database setup raises
\* (no pool), a later step raises (pool already created), or it succeeds.
StatsSetupOutcomes == {"db_raise", "later_raise", "ok"}

\* show_stats(): bot.setup(); an exception is caught by the function's
\* except Exception and the function returns.
stats_setup ==
  /\ st.pc = "setup"
  /\ \E x \in StatsSetupOutcomes :
       st' = [st EXCEPT !.pool = IF x = "db_raise" THEN "none" ELSE "open",
                        !.setup_ok = (x = "ok"),
                        !.pc = IF x = "ok" THEN "get_stats" ELSE "returned"]
  /\ UNCHANGED <<migVars, cfg, runPc, caught, database, support_bot, app,
                 is_shutting_down, event, sd, calls, signalsReg, nsig, setupMig,
                 notify_failed, log, errors_logged, engPc, worker, ran_on,
                 overlapped, tick, interrupted, nt, sup>>

\* show_stats(): bot.get_stats(), which awaits the database's statistics
\* query; an exception is caught and the function returns.
stats_get_stats ==
  /\ st.pc = "get_stats"
  /\ \E x \in CallOutcomes :
       st' = [st EXCEPT !.pc = IF x = "ok" THEN "stop" ELSE "returned"]
  /\ UNCHANGED <<migVars, cfg, runPc, caught, database, support_bot, app,
                 is_shutting_down, event, sd, calls, signalsReg, nsig, setupMig,
                 notify_failed, log, errors_logged, engPc, worker, ran_on,
                 overlapped, tick, interrupted, nt, sup>>

\* show_stats(): await bot.stop(). The attribute lookup raises when the bot
\* has no such method; the exception is caught and the function returns.
stats_stop ==
  /\ st.pc = "stop"
  /\ st' = [st EXCEPT !.pc = "returned",
                      !.stop_ran = bot_has_stop,
                      !.pool = IF bot_has_stop THEN "closed" ELSE @]
  /\ UNCHANGED <<migVars, cfg, runPc, caught, database, support_bot, app,
                 is_shutting_down, event, sd, calls, signalsReg, nsig, setupMig,
                 notify_failed, log, errors_logged, engPc, worker, ran_on,
                 overlapped, tick, interrupted, nt, sup>>

StatsNext == stats_setup \/ stats_get_stats \/ stats_stop

\* The --stats flow of main.py.
StatsSpec == Init /\ [][StatsNext]_vars

UpdateNext == Next \/ process_update_error

\* The bot process with update handlers that raise.
UpdateSpec == Init /\ [][UpdateNext]_vars

status_effect_mut(rev) == head
\* The store's revision after DatabaseManager.get_migration_status(): the
\* method is synchronous and only creates the coroutine objects of
\* get_current_revision(), has_pending_migrations() and
\* get_migration_history() without awaiting them; nothing touches the store.
status_effect(rev) == rev

\* DatabaseManager.get_migration_status(), called once setup() has created the
\* pool.  Only get_head_revision() runs; "current_revision",
\* "has_pending_migrations" and "migration_history" are un-awaited coroutine
\* objects.
get_migration_status ==
  /\ database \in {"open", "closed"}
  /\ \E h \in HeadOutcomes :
       mig' = [NoCall EXCEPT !.op = "status", !.hd = get_head_revision(h),
                             !.before = dbRev]
  /\ dbRev' = status_effect(dbRev)
  /\ UNCHANGED <<head, botVars>>

StatusNext == Next \/ get_migration_status

\* The bot process with status queries at any phase.
StatusSpec == Init /\ [][StatusNext]_vars

\* ================================================================ claims

\* C5: ensure_database_ready(auto_migrate) follows the policy table on the
\* revisions it has read: (null,null,any) -> no apply, true; (null,X,true) ->
\* apply, apply's result; (null,X,false) -> no apply, false; (X,X,any) -> no
\* apply, true; (X,Y,true) -> apply, apply's result; (X,Y,false) -> no apply,
\* false; apply is invoked exactly once in the rows marked apply and never
\* otherwise.
C5_PolicyTable ==
  (mig.op = "ensure" /\ ~mig.raised) =>
    LET c == mig.current
        h == mig.hd
        a == mig.auto
        none(r) == mig.applies = 0 /\ mig.upgrades = 0 /\ mig.result = r
                   /\ dbRev = mig.before
        appl    == mig.applies = 1 /\ mig.result = mig.applyResult
                   /\ (mig.result => mig.u = "ok")
    IN /\ (c = Null /\ h = Null) => none(TRUE)
       /\ (c = Null /\ h # Null /\ a) => appl
       /\ (c = Null /\ h # Null /\ ~a) => none(FALSE)
       /\ (c # Null /\ c = h) => none(TRUE)
       /\ (c # Null /\ h # Null /\ c # h /\ a) => appl
       /\ (c # Null /\ h # Null /\ c # h /\ ~a) => none(FALSE)
       /\ (mig.applies > 0 => (a /\ h # Null /\ c # h))

\* C5 witness: the (X, Y, true) row was taken and apply succeeded.
C5_Witness ==
  /\ mig.op = "ensure" /\ mig.auto /\ mig.current # Null /\ mig.hd # Null
  /\ mig.current # mig.hd /\ mig.applies = 1 /\ mig.result /\ dbRev = head

\* C6 as stated: has_pending_migrations() returns true iff current # head for
\* every pair of null-or-revision values.
C6_Original ==
  (mig.op = "has_pending" /\ ~mig.raised) => (mig.result <=> (mig.current # mig.hd))

\* C6 amended: has_pending_migrations() returns true iff head is non-null and
\* current # head (null current with non-null head is pending; with a null
\* head nothing is pending whatever current is).
C6_Amended ==
  (mig.op = "has_pending" /\ ~mig.raised) =>
     (mig.result <=> (mig.hd # Null /\ mig.current # mig.hd))

\* C6 witness: null current with a non-null head was reported pending.
C6_Witness ==
  mig.op = "has_pending" /\ ~mig.raised /\ mig.current = Null /\ mig.hd # Null
  /\ mig.result

C8_FreshStoreReachesHead ==
  (mig.op = "ensure" /\ mig.auto /\ ~mig.raised /\ mig.before = Null
     /\ mig.hd # Null /\ mig.hd = head) =>
       /\ mig.applies = 1
       /\ mig.result => (dbRev = head /\ ~has_pending(dbRev, head))

\* C8 witness: a fresh store was migrated to head and reported ready.
C8_Witness ==
  mig.op = "ensure" /\ mig.auto /\ mig.before = Null /\ mig.hd = head
  /\ head # Null /\ mig.applies = 1 /\ mig.result /\ dbRev = head

\* The stages in which a shutdown_gracefully() invocation is suspended.
Suspended == {SdStages[i] : i \in 1..Len(SdStages)}

\* C1 as stated: whenever run() has returned, no shutdown_gracefully()
\* invocation that passed the guard is still suspended part-way through its
\* teardown steps.
C1_RunReturnsAfterShutdown ==
  runPc = "returned" => \A c \in Callers : sd[c] \notin Suspended

\* C2: over all shutdown_gracefully() invocations (run()'s own and the tasks
\* the signal handler creates, before, during or after one another) at most
\* one passes the guard, each teardown step is invoked at most once, and every
\* other invocation returns at the guard.
C2_TeardownAtMostOnce ==
  /\ Cardinality({c \in Callers : sd[c] \in Suspended \cup {"done", "raised"}}) <= 1
  /\ \A s \in DOMAIN calls : calls[s] <= 1

\* C2 witness: one invocation tore everything down and a second one returned
\* at the guard.
C2_Witness ==
  \E c, d \in Callers :
    /\ sd[c] = "done" /\ sd[d] = "noop"
    /\ calls.updater_stop = 1 /\ calls.app_stop = 1 /\ calls.db_close = 1

\* C3: when setup() raised with the pool created and no application built,
\* run()'s shutdown path has called database.close() once it ends, performs no
\* front-end teardown step and does not fault.
C3_SetupFailureClosesStore ==
  (caught = "setup" /\ database \in {"open", "closed"} /\ runPc # "init") =>
     /\ ~app.exists
     /\ calls.db_close = 1
     /\ calls.updater_stop = 0 /\ calls.app_stop = 0 /\ calls.app_shutdown = 0
     /\ runPc \in {"fallback_db_close", "returned"}
     /\ \A c \in Callers : sd[c] = "idle"

\* C3 witness: setup() failed at the support bot, and run() returned with the
\* pool closed.
C3_Witness ==
  /\ caught = "setup" /\ support_bot = "built" /\ ~app.exists
  /\ runPc = "returned" /\ database = "closed" /\ calls.db_close = 1

\* C4 as stated: a setup() failure inside run() leaves run() by an exception,
\* never by a normal return.
C4_SetupFailurePropagates ==
  (caught = "setup" /\ runPc \in Terminal) => runPc = "raised"

\* C9: run() leaves its wait only when the shutdown event is set, and once the
\* event is set while run() waits, run() proceeds to its finally step and
\* terminates.
C9_EventWakesRun ==
  /\ [][(runPc = "wait" /\ runPc' # "wait") => (event /\ runPc' = "aexit")]_vars
  /\ (runPc = "wait" /\ event) ~> (runPc \in Terminal)

\* C9 witness: run() is suspended on the wait, polling, with the event set.
C9_Witness ==
  runPc = "wait" /\ event /\ is_shutting_down /\ app.polling

\* C10 as stated: no shutdown_gracefully() invocation raises, and one that has
\* ended has invoked database.close().
C10_ShutdownNeverRaises ==
  \A c \in Callers :
    /\ sd[c] # "raised"
    /\ sd[c] = "done" => calls.db_close >= 1

\* The order shutdown_gracefully() is to keep among the teardown events.
TeardownOrder == <<"event_set", "notify_maintainer", "notify_support",
                   "support_stop", "updater_stop", "app_stop", "app_shutdown",
                   "db_close">>

TeardownEvents == {TeardownOrder[i] : i \in 1..Len(TeardownOrder)}

\* Entry j of the log is preceded by an entry e.
Before(e, j) == \E i \in 1..(j - 1) : log[i] = e

\* C11 as stated: the teardown events of one shutdown occur in the order event
\* set, stopping notifications, support-bot stop, updater stop, application
\* stop, application shutdown, pool close, each at most once; and the
\* application's resource scope (Application.shutdown(), from
\* shutdown_gracefully() or from the exit of `async with self.app`) is not
\* torn down before polling, once started, and the background tasks, once
\* started, have been stopped.
C11_TeardownInOrder ==
  /\ \A i, j \in 1..Len(log) :
        (i < j /\ log[i] \in TeardownEvents /\ log[j] \in TeardownEvents) =>
          StageIdx(TeardownOrder, log[i]) < StageIdx(TeardownOrder, log[j])
  /\ \A j \in 1..Len(log) :
        log[j] \in {"app_shutdown", "aexit"} =>
          /\ Before("start_polling", j) => Before("updater_stop", j)
          /\ Before("app_start", j) => Before("app_stop", j)

\* The subsystems run() starts, with the log entry of the start and of the
\* stop step of each.
Subsystems == {"database", "application", "support_bot", "polling"}

StartOf(a) ==
  CASE a = "database"    -> "db_setup"
    [] a = "application" -> "app_start"
    [] a = "support_bot" -> "support_start"
    [] a = "polling"     -> "start_polling"

StopOf(a) ==
  CASE a = "database"    -> "db_close"
    [] a = "application" -> "app_stop"
    [] a = "support_bot" -> "support_stop"
    [] a = "polling"     -> "updater_stop"

\* Log entry e occurs before log entry f.
Precedes(e, f) ==
  \E i, j \in 1..Len(log) : i < j /\ log[i] = e /\ log[j] = f

\* C12 as stated: once a shutdown_gracefully() invocation that passed the
\* guard has ended, for any two subsystems A and B that run() started, A
\* before B, the stop step of B was run before the stop step of A.
C12_ReverseOfStartup ==
  (\E c \in Callers : sd[c] \in {"done", "raised"}) =>
    \A a, b \in Subsystems :
      Precedes(StartOf(a), StartOf(b)) => Precedes(StopOf(b), StopOf(a))

\* The startup steps of setup() and run(), in the order the claim gives them.
StartupOrder == <<"db_setup", "support_setup", "app_build", "app_initialize",
                  "app_start", "support_start", "start_polling">>

StartupEvents == {StartupOrder[i] : i \in 1..Len(StartupOrder)}

\* C13: startup steps complete one after another in program order; the
\* application is constructed only after the database's setup (migration check
\* and pool) has completed; and with a support bot configured the primary
\* polling is started only after the support bot's setup and start have
\* completed.
C13_StartupInOrder ==
  /\ \A i, j \in 1..Len(log) :
        (i < j /\ log[i] \in StartupEvents /\ log[j] \in StartupEvents) =>
          StageIdx(StartupOrder, log[i]) < StageIdx(StartupOrder, log[j])
  /\ \A j \in 1..Len(log) : log[j] = "app_build" => Before("db_setup", j)
  /\ app.exists => database # "none" /\ database # "nopool"
  /\ (cfg.support /\ (runPc = "start_polling" \/ app.polling)) =>
        /\ Precedes("support_setup", "support_start")
        /\ \A j \in 1..Len(log) :
              log[j] = "start_polling" => Before("support_start", j)

\* C13 witness: with a support bot configured, run() has started polling.
C13_Witness ==
  /\ cfg.support /\ app.polling /\ support_bot = "started" /\ runPc = "wait"
  /\ Precedes("db_setup", "app_build") /\ Precedes("support_start", "start_polling")

\* C14: when ensure_database_ready() returned false inside
\* DatabaseManager.setup(), setup() has raised, the pool was never created,
\* neither the support bot nor the application was constructed, and polling
\* is never started.
C14_MigrationFailureAbortsSetup ==
  (setupMig.called /\ ~setupMig.ready) =>
     /\ caught = "setup"
     /\ database = "nopool"
     /\ support_bot = "none"
     /\ ~app.exists /\ ~app.polling
     /\ \A j \in 1..Len(log) : log[j] \notin StartupEvents
     /\ runPc = "returned"

\* C14 witness: setup() asked the migrator, whose apply failed, and run()
\* has ended without a pool.
C14_Witness ==
  /\ setupMig.called /\ ~setupMig.ready /\ setupMig.applies = 1
  /\ database = "nopool" /\ runPc = "returned"

\* C15 as stated: setup() invokes ensure_database_ready(), and through it
\* apply_migrations(), only when auto_migrate is enabled in the BotConfig.
C15_MigratesOnlyIfConfigured ==
  /\ setupMig.called => cfg.auto_migrate
  /\ setupMig.applies > 0 => cfg.auto_migrate

\* C16: the signal handler creates a shutdown task only while no shutdown is
\* in progress, and however many signals are delivered and whenever (two
\* before the first task has run, or one racing run()'s own finally step), at
\* most one shutdown_gracefully() invocation gets past the guard: the flag and
\* the event are set at most once.
C16_SignalGuard ==
  /\ [][\A t \in Tasks : (sd[t] = "idle" /\ sd'[t] = "created") => ~is_shutting_down]_vars
  /\ [](Cardinality({i \in 1..Len(log) : log[i] = "event_set"}) <= 1)
  /\ []((\E c \in Callers : sd[c] = "noop") => is_shutting_down)

\* C16 witness: two signals were delivered before the first task ran; one
\* task performs the teardown, the other returned at the guard.
C16_Witness ==
  \E t, w \in Tasks :
    /\ t # w /\ nsig >= 2
    /\ sd[t] \in Suspended \cup {"done"} /\ sd[w] = "noop"
    /\ Cardinality({i \in 1..Len(log) : log[i] = "event_set"}) = 1

\* The points of shutdown_gracefully() after its support-bot step.
PastSupportStep == {"updater_stop", "app_stop", "app_shutdown", "db_close",
                    "done", "raised"}

\* C17 as stated: the support bot answers is_running(), and
\* shutdown_gracefully() stops it exactly when it is running: an invocation
\* that is past the support-bot step did not fault there, has stopped a bot it
\* found started, and has not stopped a bot that was only set up.
C17_StopsSupportBotIffRunning ==
  \A c \in Callers :
    (sd[c] \in PastSupportStep /\ cfg.support) =>
       /\ sd[c] # "raised"
       /\ calls.support_stop = 1 => Precedes("support_start", "support_stop")
       /\ (\E j \in 1..Len(log) : log[j] = "event_set" /\ Before("support_start", j))
            => calls.support_stop = 1

\* C18: a started or stopping notification that fails is absorbed: when run()
\* or a shutdown_gracefully() invocation leaves a notification call, it goes
\* on to the step that follows in program order, the same whether the send
\* succeeded or failed, with nothing caught and no component changed.
C18_NotificationsBestEffort ==
  [][/\ (runPc \in NotifyStages /\ runPc' # runPc) =>
          /\ runPc' = run_next(StageIdx(RunStages, runPc) + 1, support_bot, event)
          /\ caught' = caught /\ app' = app /\ support_bot' = support_bot
          /\ database' = database
      /\ \A c \in Callers :
           (sd[c] \in NotifyStages /\ sd'[c] \notin {sd[c], "cancelled"}) =>
             /\ sd'[c] = sd_next(StageIdx(SdStages, sd[c]) + 1, app, support_bot,
                                 database)
             /\ caught' = caught /\ app' = app /\ support_bot' = support_bot
             /\ database' = database]_vars

\* C18 witness: a started notification failed and run() went on to start
\* polling.
C18_Witness ==
  notify_failed /\ ~is_shutting_down /\ app.polling /\ runPc = "wait"

\* C19 as stated: apply_migrations() invokes the engine's upgrade exactly once
\* per call and returns true iff that upgrade completed without raising.
C19_ApplyReportsUpgrade ==
  mig.applies = 1 =>
    /\ mig.upgrades = 1
    /\ mig.applyResult <=> (mig.u = "ok")

\* C20 as stated: no get_current_revision() call raises, whether made by
\* has_pending_migrations(), ensure_database_ready() or apply_migrations(),
\* and an unreachable store is read as null.
C20_CurrentRevisionNeverRaises ==
  /\ mig.o # "raise" /\ mig.r1 # "raise" /\ mig.r2 # "raise"
  /\ ~mig.raised
  /\ (mig.o = "unreachable") => (mig.current = Null)

\* C21: a get_migration_status() call, at any phase after setup(), invokes
\* neither apply nor any other engine routine and leaves the store's revision,
\* the pool and the bot's shutdown flag and event as they were.
C21_StatusIsReadOnly ==
  [][(mig' # mig /\ mig'.op = "status") =>
       /\ dbRev' = dbRev /\ head' = head
       /\ mig'.applies = 0 /\ mig'.upgrades = 0
       /\ database' = database
       /\ is_shutting_down' = is_shutting_down /\ event' = event]_vars

\* C21 witness: the status was queried while a shutdown was in progress with
\* the pool still open.
C21_Witness ==
  mig.op = "status" /\ is_shutting_down /\ event /\ database = "open"

\* C22: an exception raised while an update is handled reaches
\* _error_handler(), which logs it and changes neither the shutting-down flag
\* nor the shutdown event, stops nothing, and does not move run() from where
\* it is suspended.
C22_ErrorHandlerOnlyLogs ==
  [][(errors_logged' # errors_logged) =>
       /\ is_shutting_down' = is_shutting_down /\ event' = event
       /\ app' = app /\ runPc' = runPc /\ sd' = sd /\ calls' = calls]_vars

\* C22 witness: an update handler has failed, and run() still waits on the
\* unset event with polling on.
C22_Witness ==
  errors_logged >= 1 /\ runPc = "wait" /\ ~event /\ ~is_shutting_down /\ app.polling

\* C23: every engine routine (upgrade, downgrade, stamp, revision creation)
\* runs on a worker thread, one per call; while it runs the calling coroutine
\* is suspended at that call, and another coroutine of the loop can take a
\* step.
C23_EngineCallsOffloaded ==
  /\ ran_on # "loop"
  /\ (worker # "none") <=> (engPc = "awaiting")
  /\ (worker # "none") => ENABLED other_coroutine_step

\* C23 witness: a stamp has run on a worker while another coroutine stepped,
\* and the caller has resumed.
C23_Witness ==
  mig.op = "stamp" /\ ran_on = "worker" /\ overlapped /\ engPc = "idle"

\* The number of times the shutdown event has been set.
EventSets == Cardinality({i \in 1..Len(log) : log[i] = "event_set"})

\* C24: the shutdown event, once set, is never cleared; it becomes set only
\* in the step in which a shutdown_gracefully() invocation passes the guard
\* and sets the flag; in an execution that shuts down it has been set exactly
\* once; and run() leaves its wait on nothing but the event.
C24_EventSetOnce ==
  /\ [][event => event']_vars
  /\ [][(~event /\ event') =>
          /\ ~is_shutting_down /\ is_shutting_down'
          /\ \E c \in Callers :
               sd[c] \in {"idle", "created"} /\ sd'[c] \notin {"idle", "created", "noop"}]_vars
  /\ [](is_shutting_down => (event /\ EventSets = 1))
  /\ [](~is_shutting_down => EventSets = 0)
  /\ [][(runPc = "wait" /\ runPc' # "wait") => event]_vars

\* C24 witness: after two signals and run()'s own finally call, the teardown
\* is done and the event has been set once.
C24_Witness ==
  /\ nsig >= 2 /\ event /\ EventSets = 1 /\ runPc = "returned"
  /\ \E c \in Callers : sd[c] = "done"

\* C28: at every suspension point, the is_shutting_down flag being true
\* implies that the shutdown event is set, so nothing observes a shutdown in
\* progress while run() still waits on an unset event.
C28_FlagImpliesEvent ==
  /\ is_shutting_down => event
  /\ (runPc = "wait" /\ ~event) => ~is_shutting_down

\* C28 witness: a shutdown task is suspended in a teardown step while run()
\* is still parked on the wait, with flag and event both set.
C28_Witness ==
  /\ is_shutting_down /\ event /\ runPc = "wait"
  /\ \E t \in Tasks : sd[t] \in Suspended

\* C25 as stated: the lifecycle is monotonic: the is_shutting_down flag, once
\* true, stays true, and polling is neither started nor restarted after the
\* flag has been set (no start_polling call completes once the shutdown has
\* begun).
C25_LifecycleMonotonic ==
  /\ ~Precedes("event_set", "start_polling")
  /\ (EventSets > 0) => is_shutting_down

\* C26: where the signal handlers cannot be registered, registration is
\* skipped without an error and run() goes on to its next startup step; and a
\* keyboard interrupt that cancels run() takes it to the exit of the
\* `async with` and the finally step, so run() does not end without having
\* called shutdown_gracefully().
C26_RegistrationBestEffort ==
  /\ [](~cfg.can_register => (~signalsReg /\ nsig = 0))
  /\ [][(~cfg.can_register /\ runPc = "app_start" /\ ~app.running /\ app'.running) =>
          /\ runPc' \in {"notify_support_start", "notify_maint_start",
                         "support_start", "start_polling"}
          /\ caught' = caught]_vars
  /\ [](interrupted => runPc \in {"aexit", "finally"} \cup Terminal)
  /\ []((interrupted /\ runPc \in Terminal) => sd[0] # "idle")

\* C26 witness: without signal handlers, run() was interrupted while polling,
\* and its finally step has torn everything down.
C26_Witness ==
  /\ ~cfg.can_register /\ interrupted /\ runPc \in Terminal /\ sd[0] = "done"
  /\ calls.updater_stop = 1 /\ calls.app_stop = 1 /\ calls.db_close = 1
  /\ Precedes("start_polling", "event_set")

\* C27 as stated: when stopping the main application (updater stop,
\* application stop or application shutdown) raised inside the non-template
\* stop(), stop() has still stopped the support bot and called
\* database.close() by the time it ends.
C27_StopStepsIndependent ==
  (nt.pc = "done" /\ nt.failed \in {"updater_stop", "app_stop", "app_shutdown"}) =>
     /\ nt.support => "support_stop" \in nt.invoked
     /\ nt.database => "db_close" \in nt.invoked

\* C29: SupportBot.stop() never raises, whatever the state of the support bot
\* (never set up, set up but not started, started): a failing teardown call
\* is absorbed and stop() returns; and with no application constructed it
\* makes no teardown call.
C29_SupportStopNeverRaises ==
  /\ sup.res # "raised"
  /\ (sup.at = "none" /\ sup.res = "returned") => sup.invoked = {}
  /\ (sup.res = "returned" /\ sup.at # "none") => "updater_stop" \in sup.invoked

\* C29 witness: stop() was called on a support bot that was set up but never
\* started; its first teardown call failed and stop() returned.
C29_Witness ==
  sup.res = "returned" /\ sup.at = "setup" /\ sup.invoked = {"updater_stop"}
  /\ sup.pc = "idle"

\* C30: in the --stats flow, whenever bot.setup() succeeded inside
\* show_stats(), the database pool that setup created is closed by the time
\* show_stats() returns.
C30_StatsReleasesPool ==
  (st.pc = "returned" /\ st.setup_ok) => st.pool = "closed"

====
